---- MODULE Spec2Model ----
(***************************************************************************)
(* Model of pydumpanalyzer's WinDbg driver (src/pydumpanalyzer/windbg.py): *)
(* the command channel and process supervisor of WinDbg._callWinDbg, and   *)
(* the transcript parsers behind WinDbg.getStackTrace.                     *)
(*                                                                         *)
(* Text.  A Python str is a sequence of atoms.  An atom is a TLA+ string   *)
(* standing for one or more characters that the code never takes apart:    *)
(* every character the code searches for, splits on or tests is an atom of *)
(* its own (" ", "\n", ";", "!", "[", "@", "=", each decimal digit, the    *)
(* two-character marker "0n", and every word of the announcement lines).   *)
(* A Python value that may be None is a sequence of length 0 (None) or 1.  *)
(***************************************************************************)
EXTENDS Integers, Sequences, FiniteSets, TLC

\* ------------------------------------------------------------------ str
NL == "\n"
SP == " "
Whitespace == {SP, NL, "\t"}

None == <<>>
Some(x) == <<x>>

\* F(v) with v evaluated once: a local variable of the code.
Local(v, F(_)) == CHOOSE r \in {F(x) : x \in {v}} : TRUE

\* sub occurs in s at position i
OccursAt(s, sub, i) ==
    /\ i >= 1
    /\ i + Len(sub) - 1 <= Len(s)
    /\ \A k \in 1..Len(sub) : s[i + k - 1] = sub[k]

\* str.find, 1-based; 0 when sub does not occur
Find(s, sub) ==
    IF \E i \in 1..Len(s) : OccursAt(s, sub, i)
    THEN CHOOSE i \in 1..Len(s) :
            /\ OccursAt(s, sub, i)
            /\ \A j \in 1..(i - 1) : ~OccursAt(s, sub, j)
    ELSE 0

\* sub in s
Contains(s, sub) == Find(s, sub) # 0

\* s.startswith(sub)
StartsWith(s, sub) == OccursAt(s, sub, 1)

\* s.split(sep, 1): a list of one part (sep absent) or two
Split1(s, sep) ==
    LET i == Find(s, sep)
    IN  IF i = 0 THEN <<s>>
        ELSE <<SubSeq(s, 1, i - 1), SubSeq(s, i + Len(sep), Len(s))>>

\* s.split(sep), every occurrence
RECURSIVE SplitAll(_, _)
SplitAll(s, sep) ==
    LET i == Find(s, sep)
    IN  IF i = 0 THEN <<s>>
        ELSE <<SubSeq(s, 1, i - 1)>> \o SplitAll(SubSeq(s, i + Len(sep), Len(s)), sep)

\* s.replace(old, ''), every occurrence, left to right
RECURSIVE RemoveAll(_, _)
RemoveAll(s, old) ==
    LET i == Find(s, old)
    IN  IF i = 0 THEN s
        ELSE SubSeq(s, 1, i - 1) \o RemoveAll(SubSeq(s, i + Len(old), Len(s)), old)

\* sep.join(parts), halving the list
RECURSIVE Join(_, _)
Join(parts, sep) ==
    IF Len(parts) = 0 THEN <<>>
    ELSE IF Len(parts) = 1 THEN parts[1]
    ELSE LET h == Len(parts) \div 2
         IN  Join(SubSeq(parts, 1, h), sep) \o sep
                \o Join(SubSeq(parts, h + 1, Len(parts)), sep)

\* The pieces of s[lo..hi] between line breaks, halving at a middle line break.
RECURSIVE Pieces(_, _, _)
Pieces(s, lo, hi) ==
    LET breaks == {i \in lo..hi : s[i] = NL}
    IN  IF breaks = {} THEN <<SubSeq(s, lo, hi)>>
        ELSE LET m == CHOOSE x \in breaks :
                        Cardinality({y \in breaks : y < x}) = Cardinality(breaks) \div 2
             IN  Pieces(s, lo, m - 1) \o Pieces(s, m + 1, hi)

\* s.splitlines(): a trailing line break makes no empty last line
SplitLines(s) ==
    IF Len(s) = 0 THEN <<>>
    ELSE IF s[Len(s)] = NL THEN Pieces(s, 1, Len(s) - 1)
    ELSE Pieces(s, 1, Len(s))

\* s.strip()
Strip(s) ==
    IF \A i \in 1..Len(s) : s[i] \in Whitespace THEN <<>>
    ELSE LET a == CHOOSE i \in 1..Len(s) :
                    s[i] \notin Whitespace /\ \A k \in 1..(i - 1) : s[k] \in Whitespace
             b == CHOOSE i \in 1..Len(s) :
                    s[i] \notin Whitespace /\ \A k \in (i + 1)..Len(s) : s[k] \in Whitespace
         IN  SubSeq(s, a, b)

\* s.split(): the maximal runs of non-whitespace
RECURSIVE TokensFrom(_, _)
TokensFrom(s, start) ==
    IF \A i \in start..Len(s) : s[i] \in Whitespace THEN <<>>
    ELSE LET a == CHOOSE i \in start..Len(s) :
                    s[i] \notin Whitespace /\ \A k \in start..(i - 1) : s[k] \in Whitespace
             b == CHOOSE i \in a..Len(s) :
                    /\ \A k \in a..i : s[k] \notin Whitespace
                    /\ (i = Len(s) \/ s[i + 1] \in Whitespace)
         IN  <<SubSeq(s, a, b)>> \o TokensFrom(s, b + 1)

SplitWS(s) == TokensFrom(s, 1)

\* ------------------------------------------------------------------ int()
Digits == {"0", "1", "2", "3", "4", "5", "6", "7", "8", "9"}

DigitValue(d) ==
    CASE d = "0" -> 0 [] d = "1" -> 1 [] d = "2" -> 2 [] d = "3" -> 3 [] d = "4" -> 4
      [] d = "5" -> 5 [] d = "6" -> 6 [] d = "7" -> 7 [] d = "8" -> 8 [] d = "9" -> 9

RECURSIVE DecimalValue(_)
DecimalValue(ds) ==
    IF Len(ds) = 0 THEN 0
    ELSE 10 * DecimalValue(SubSeq(ds, 1, Len(ds) - 1)) + DigitValue(ds[Len(ds)])

\* int(s) succeeds: optional surrounding whitespace, optional sign, digits only
IntParses(s) ==
    LET t == Strip(s)
        body == IF Len(t) > 0 /\ t[1] \in {"-", "+"} THEN Tail(t) ELSE t
    IN  Len(body) > 0 /\ \A i \in 1..Len(body) : body[i] \in Digits

\* int(s), defined where IntParses(s)
IntOf(s) ==
    LET t == Strip(s)
        neg == Len(t) > 0 /\ t[1] = "-"
        body == IF Len(t) > 0 /\ t[1] \in {"-", "+"} THEN Tail(t) ELSE t
    IN  IF neg THEN 0 - DecimalValue(body) ELSE DecimalValue(body)

\* int(s, 16)
HexDigits == Digits \cup {"a", "b", "c", "d", "e", "f"}

HexDigitValue(d) ==
    CASE d \in Digits -> DigitValue(d)
      [] d = "a" -> 10 [] d = "b" -> 11 [] d = "c" -> 12
      [] d = "d" -> 13 [] d = "e" -> 14 [] d = "f" -> 15

RECURSIVE HexValue(_)
HexValue(ds) ==
    IF Len(ds) = 0 THEN 0
    ELSE 16 * HexValue(SubSeq(ds, 1, Len(ds) - 1)) + HexDigitValue(ds[Len(ds)])

HexParses(s) == Len(s) > 0 /\ \A i \in 1..Len(s) : s[i] \in HexDigits

\* '%d' % n, for n >= 0
DigitChar(d) ==
    CASE d = 0 -> "0" [] d = 1 -> "1" [] d = 2 -> "2" [] d = 3 -> "3" [] d = 4 -> "4"
      [] d = 5 -> "5" [] d = 6 -> "6" [] d = 7 -> "7" [] d = 8 -> "8" [] d = 9 -> "9"

RECURSIVE DecimalText(_)
DecimalText(n) ==
    IF n < 10 THEN <<DigitChar(n)>>
    ELSE DecimalText(n \div 10) \o <<DigitChar(n % 10)>>

\* Python values that are either a str or an int
PyStr(s) == [kind |-> "str", str |-> s, int |-> 0]
PyInt(n) == [kind |-> "int", str |-> <<>>, int |-> n]

\* ------------------------------------------------------------------ command channel
SYMOPT == <<".symopt+0x10">>
ECXR == <<".ecxr">>
QUIT == <<"q">>
ECHO == <<".echo", SP>>
SEMICOLON == <<";">>

\* '.echo == Start Calling %s ==' % dc
StartCalling(dc) ==
    <<".echo", SP, "==", SP, "Start", SP, "Calling", SP>> \o dc \o <<SP, "==">>

\* '.echo == End Calling %s ==' % dc
EndCalling(dc) ==
    <<".echo", SP, "==", SP, "End", SP, "Calling", SP>> \o dc \o <<SP, "==">>

\* The caller's argument: a str is wrapped into a one-element list.
AsList(arg) == IF arg.kind = "str" THEN <<arg.str>> ELSE arg.list

\* The automatic commands prepended in the other order.
DebugCommandsList_EcxrFirst(arg, gotoExceptionContext, exitAfterCommands) ==
    (IF gotoExceptionContext THEN <<ECXR>> ELSE <<>>)
        \o <<SYMOPT>>
        \o AsList(arg)
        \o (IF exitAfterCommands THEN <<QUIT>> ELSE <<>>)

\* Lines 51-62: debugCommandsList after the automatic commands are added.
DebugCommandsList(arg, gotoExceptionContext, exitAfterCommands) ==
    <<SYMOPT>>
        \o (IF gotoExceptionContext THEN <<ECXR>> ELSE <<>>)
        \o AsList(arg)
        \o (IF exitAfterCommands THEN <<QUIT>> ELSE <<>>)

\* The announcement-wrapped list built when printHeaderFooter is set.
RECURSIVE FinalCommandList(_)
FinalCommandList(list) ==
    IF Len(list) = 0 THEN <<>>
    ELSE LET dc == list[1]
         IN  <<StartCalling(dc), dc>>
                \o (IF dc # QUIT THEN <<EndCalling(dc)>> ELSE <<>>)
                \o FinalCommandList(Tail(list))

\* outputHeader: set once, by the first command that was not added automatically.
RECURSIVE OutputHeader(_, _)
OutputHeader(list, gotoExceptionContext) ==
    IF Len(list) = 0 THEN None
    ELSE LET dc == list[1]
         IN  IF (~(gotoExceptionContext /\ dc = ECXR)) /\ dc # SYMOPT
             THEN Some(Split1(StartCalling(dc), ECHO)[2])
             ELSE OutputHeader(Tail(list), gotoExceptionContext)

\* outputFooter: overwritten by every command but the quit command.
RECURSIVE OutputFooter(_)
OutputFooter(list) ==
    IF Len(list) = 0 THEN None
    ELSE LET dc == list[Len(list)]
         IN  IF dc # QUIT
             THEN Some(Split1(EndCalling(dc), ECHO)[2])
             ELSE OutputFooter(SubSeq(list, 1, Len(list) - 1))

\* ';'.join(debugCommandsList)
CmdsWithSemiColons(arg, gotoExceptionContext, printHeaderFooter, exitAfterCommands) ==
    LET list == DebugCommandsList(arg, gotoExceptionContext, exitAfterCommands)
    IN  Join(IF printHeaderFooter THEN FinalCommandList(list) ELSE list, SEMICOLON)

\* Python truthiness of an optional str: None and '' are false.
Truthy(opt) == opt # None /\ opt[1] # <<>>

\* The slicing step without the skip over the echoed invocation (line 147 dropped).
JustCommandOutput_NoEchoSkip(fullOutput, cmds, header, footer) ==
    LET afterHeader == Split1(fullOutput, header)
    IN  IF Len(afterHeader) < 2 THEN [ok |-> FALSE, text |-> <<>>]
        ELSE [ok |-> TRUE,
              text |-> header \o <<NL>> \o Split1(afterHeader[2], footer)[1]
                         \o <<NL>> \o footer]

\* Lines 146-151.  The result of the slicing step: ok = FALSE is the IndexError
\* of taking part [1] of a split that found nothing.
JustCommandOutput(fullOutput, cmds, header, footer) ==
    LET afterEcho == Split1(fullOutput, cmds)
    IN  IF Len(afterEcho) < 2 THEN [ok |-> FALSE, text |-> <<>>]
        ELSE LET afterHeader == Split1(afterEcho[2], header)
             IN  IF Len(afterHeader) < 2 THEN [ok |-> FALSE, text |-> <<>>]
                 ELSE [ok |-> TRUE,
                       text |-> header \o <<NL>>
                                  \o Split1(afterHeader[2], footer)[1]
                                  \o <<NL>> \o footer]

\* ------------------------------------------------------------------ bounds and inputs
MaxTimeout == 2
MaxCommands == 2

Commands == {<<".frame", SP, "0">>, <<"dv", SP, "/t", SP, "*">>}

RECURSIVE ListsUpTo(_)
ListsUpTo(n) ==
    IF n = 0 THEN {<<>>}
    ELSE LET shorter == ListsUpTo(n - 1)
         IN  shorter \cup {Append(l, c) : l \in {x \in shorter : Len(x) = n - 1}, c \in Commands}

\* What a caller passes as debugCommandsList: a str or a list of str.
CallerArgs ==
    {[kind |-> "str", str |-> <<"kcn">>, list |-> <<>>]}
        \cup {[kind |-> "list", str |-> <<>>, list |-> l] : l \in ListsUpTo(MaxCommands)}

Timeouts == 0..MaxTimeout

\* The keyword arguments of line 50.
CallOptions == [gotoExceptionContext : BOOLEAN, printHeaderFooter : BOOLEAN,
                exitAfterCommands : BOOLEAN, getJustCommandOutput : BOOLEAN]

NoParams ==
    [debugCommandsList |-> [kind |-> "list", str |-> <<>>, list |-> <<>>],
     gotoExceptionContext |-> TRUE, printHeaderFooter |-> TRUE,
     exitAfterCommands |-> TRUE, getJustCommandOutput |-> TRUE, timeout |-> 0]

\* ------------------------------------------------------------------ the external tool's log
Banner == <<"Microsoft", SP, "(R)", SP, "Windows", SP, "Debugger", NL>>
SetupOutput == <<"Symbol", SP, "options", SP, "are", SP, "0x10", NL>>
CommandOutput == <<NL, "0", "0", SP, "TheCrasher", "!", "main", NL>>
Epilogue == <<"quit:", NL>>

\* The shapes of log the tool may write: the surrounding text, the echo of the
\* -c argument, and the output of the header and footer announcements, each
\* present or missing.
LogShapes == [surround : BOOLEAN, echo : BOOLEAN, header : BOOLEAN, footer : BOOLEAN]

OptText(opt) == IF opt = None THEN <<>> ELSE opt[1]

LogTextOf(shape, cmds, header, footer, body) ==
    (IF shape.surround THEN Banner ELSE <<>>)
        \o (IF shape.echo THEN <<"Reading", SP, "initial", SP, "command", SP, "'">>
                                  \o cmds \o <<"'", NL>>
            ELSE <<>>)
        \o (IF shape.surround THEN SetupOutput ELSE <<>>)
        \o (IF shape.header THEN OptText(header) ELSE <<>>)
        \o body
        \o (IF shape.footer THEN OptText(footer) ELSE <<>>)
        \o (IF shape.surround THEN <<NL>> \o Epilogue ELSE <<>>)

LogText(shape, cmds, header, footer) ==
    LogTextOf(shape, cmds, header, footer, CommandOutput)

\* ------------------------------------------------------------------ state
VARIABLES
    pc,                 \* where _callWinDbg is
    params,             \* the arguments of the call
    cmdsWithSemiColons, \* the joined invocation string
    outputHeader,       \* the header marker, or None
    outputFooter,       \* the footer marker, or None
    now,                \* time.time(), in polling intervals
    deathTime,          \* the deadline
    process,            \* the external process: state, exit code, time of exit
    returncode,         \* process.returncode: None until a poll sees the exit
    tempFile,           \* the -logo file: None when absent, else its text
    logShape,           \* what the tool wrote, None before it writes
    fullOutput,         \* the text read from the log (line 130)
    raised,             \* the exception leaving the call, "" for none
    returned,           \* the returned text, None until the call returns
    events,             \* what the call has done, in order
    dump,               \* the crash dump the WinDbg object was built on
    spc,                \* where getStackTrace is
    rawOutputClean,     \* the kcn output
    rawOutputExtended,  \* the kpn output
    idx,                \* the loop index
    frames,             \* the local of that name
    stack,              \* the Stack returned, None until then
    stackRaised,        \* the exception leaving getStackTrace, "" for none
    launches,           \* external processes launched by the call on the WinDbg object
    rawAnalysis,        \* the text returned by getRawAnalysis, None until then
    tableHeaders,       \* HtmlTable.tableHeaders
    rows,               \* HtmlTable.rows: the list objects, by identity
    lists,              \* the cells of every list object made so far
    lastCall,           \* the last call on the table, and the table before it
    history             \* the calls made on the table: operation and exception

callVars == <<pc, params, cmdsWithSemiColons, outputHeader, outputFooter, now,
              deathTime, process, returncode, tempFile, logShape, fullOutput,
              raised, returned, events>>

stackVars == <<dump, spc, rawOutputClean, rawOutputExtended, idx, frames, stack,
               stackRaised, launches, rawAnalysis>>

tableVars == <<tableHeaders, rows, lists, lastCall, history>>

vars == <<callVars, stackVars, tableVars>>

NoProcess == [state |-> "none", exitCode |-> 0, exitTime |-> 0]

CallInit ==
    /\ pc = "idle"
    /\ params = NoParams
    /\ cmdsWithSemiColons = <<>>
    /\ outputHeader = None
    /\ outputFooter = None
    /\ now = 0
    /\ deathTime = 0
    /\ process = NoProcess
    /\ returncode = None
    /\ tempFile = None
    /\ logShape = None
    /\ fullOutput = <<>>
    /\ raised = ""
    /\ returned = None
    /\ events = <<>>

\* ------------------------------------------------------------------ _callWinDbg
\* Lines 50-116: build the command line, launch the tool, fix the deadline.
CallWinDbg ==
    /\ UNCHANGED <<stackVars, tableVars>>
    /\ pc = "idle"
    /\ \E arg \in CallerArgs, o \in CallOptions, t \in Timeouts :
          LET goto == o.gotoExceptionContext
              hf == o.printHeaderFooter
              ex == o.exitAfterCommands
              just == o.getJustCommandOutput
              list == DebugCommandsList(arg, goto, ex)
          IN  /\ params' = [debugCommandsList |-> arg, gotoExceptionContext |-> goto,
                            printHeaderFooter |-> hf, exitAfterCommands |-> ex,
                            getJustCommandOutput |-> just, timeout |-> t]
              /\ cmdsWithSemiColons' = CmdsWithSemiColons(arg, goto, hf, ex)
              /\ outputHeader' = IF hf THEN OutputHeader(list, goto) ELSE None
              /\ outputFooter' = IF hf THEN OutputFooter(list) ELSE None
              /\ deathTime' = now + t
    /\ process' = [state |-> "running", exitCode |-> 0, exitTime |-> 0]
    /\ events' = Append(events, "Popen")
    /\ pc' = "poll"
    /\ UNCHANGED <<now, returncode, tempFile, logShape, fullOutput, raised, returned>>

\* process.poll(): lines 116 and 120.
Poll ==
    /\ UNCHANGED <<stackVars, tableVars>>
    /\ pc = "poll"
    /\ returncode' = IF returncode = None /\ process.state = "exited"
                     THEN Some(process.exitCode) ELSE returncode
    /\ pc' = "while"
    /\ UNCHANGED <<params, cmdsWithSemiColons, outputHeader, outputFooter, now,
                   deathTime, process, tempFile, logShape, fullOutput, raised,
                   returned, events>>

\* The loop's condition, deathTime > time.time()
BeforeDeadline(death, time) == death > time

\* Lines 117-122: the loop head and the test of returncode.
While ==
    /\ UNCHANGED <<stackVars, tableVars>>
    /\ pc = "while"
    /\ pc' = IF BeforeDeadline(deathTime, now)
             THEN (IF returncode = None THEN "sleep" ELSE "read")
             ELSE "else"
    /\ UNCHANGED <<params, cmdsWithSemiColons, outputHeader, outputFooter, now,
                   deathTime, process, returncode, tempFile, logShape, fullOutput,
                   raised, returned, events>>

\* time.sleep(.01): one polling interval passes.
Sleep ==
    /\ UNCHANGED <<stackVars, tableVars>>
    /\ pc = "sleep"
    /\ now' = now + 1
    /\ pc' = "poll"
    /\ UNCHANGED <<params, cmdsWithSemiColons, outputHeader, outputFooter,
                   deathTime, process, returncode, tempFile, logShape, fullOutput,
                   raised, returned, events>>

\* The else branch with the terminate() call left out.
TimeoutEvents_NoTerminate == <<"raise RuntimeError">>

\* What the else branch of the loop does, lines 124-125, in order.
TimeoutEvents == <<"process.terminate", "raise RuntimeError">>

\* Lines 123-125: the loop ran out: terminate, raise.
Else ==
    /\ UNCHANGED <<stackVars, tableVars>>
    /\ pc = "else"
    /\ process' = IF process.state = "running" /\ "process.terminate" \in
                        {TimeoutEvents[i] : i \in 1..Len(TimeoutEvents)}
                  THEN [process EXCEPT !.state = "terminating"] ELSE process
    /\ events' = events \o TimeoutEvents
    /\ raised' = "RuntimeError"
    /\ pc' = "finally"
    /\ UNCHANGED <<params, cmdsWithSemiColons, outputHeader, outputFooter, now,
                   deathTime, returncode, tempFile, logShape, fullOutput, returned>>

\* Lines 127-136: read the log, check the exit code.
ReadOutput ==
    /\ UNCHANGED <<stackVars, tableVars>>
    /\ pc = "read"
    /\ LET text == IF tempFile # None THEN tempFile[1] ELSE <<>>
       IN  /\ fullOutput' = text
           /\ IF returncode # Some(0)
              THEN /\ events' = events \o <<"read", "logger.error", "raise CalledProcessError">>
                   /\ raised' = "CalledProcessError"
              ELSE /\ events' = events \o <<"read", "logger.debug">>
                   /\ raised' = raised
    /\ pc' = "finally"
    /\ UNCHANGED <<params, cmdsWithSemiColons, outputHeader, outputFooter, now,
                   deathTime, process, returncode, tempFile, logShape, returned>>

\* Lines 138-143: remove the log if it is there; an OSError is swallowed.
Finally ==
    /\ UNCHANGED <<stackVars, tableVars>>
    /\ pc = "finally"
    /\ \/ /\ tempFile # None
          /\ \/ tempFile' = None /\ events' = Append(events, "os.remove")
             \/ tempFile' = tempFile /\ events' = Append(events, "os.remove OSError")
       \/ /\ tempFile = None
          /\ UNCHANGED <<tempFile, events>>
    /\ pc' = IF raised # "" THEN "raised" ELSE "slice"
    /\ UNCHANGED <<params, cmdsWithSemiColons, outputHeader, outputFooter, now,
                   deathTime, process, returncode, logShape, fullOutput, raised,
                   returned>>

\* Lines 145-153: cut the command output out of the log and return.
Return ==
    /\ UNCHANGED <<stackVars, tableVars>>
    /\ pc = "slice"
    /\ IF params.getJustCommandOutput /\ Truthy(outputHeader) /\ Truthy(outputFooter)
       THEN LET r == JustCommandOutput(fullOutput, cmdsWithSemiColons,
                                       outputHeader[1], outputFooter[1])
            IN  IF r.ok
                THEN /\ returned' = Some(r.text)
                     /\ raised' = raised
                     /\ events' = events \o <<"slice", "return">>
                     /\ pc' = "returned"
                ELSE /\ raised' = "IndexError"
                     /\ events' = events \o <<"slice", "raise IndexError">>
                     /\ pc' = "raised"
                     /\ UNCHANGED returned
       ELSE /\ returned' = Some(fullOutput)
            /\ events' = Append(events, "return")
            /\ pc' = "returned"
            /\ UNCHANGED raised
    /\ UNCHANGED <<params, cmdsWithSemiColons, outputHeader, outputFooter, now,
                   deathTime, process, returncode, tempFile, logShape, fullOutput>>

\* ------------------------------------------------------------------ the tool
\* The tool exits by itself, with some exit code.
ProcessExits ==
    /\ UNCHANGED <<stackVars, tableVars>>
    /\ process.state = "running"
    /\ \E code \in {0, 1} :
          process' = [state |-> "exited", exitCode |-> code, exitTime |-> now]
    /\ UNCHANGED <<pc, params, cmdsWithSemiColons, outputHeader, outputFooter, now,
                   deathTime, returncode, tempFile, logShape, fullOutput, raised,
                   returned, events>>

\* terminate() does not wait: the tool dies some time after it.
ProcessDies ==
    /\ UNCHANGED <<stackVars, tableVars>>
    /\ process.state = "terminating"
    /\ process' = [process EXCEPT !.state = "dead"]
    /\ UNCHANGED <<pc, params, cmdsWithSemiColons, outputHeader, outputFooter, now,
                   deathTime, returncode, tempFile, logShape, fullOutput, raised,
                   returned, events>>

\* The tool writes its -logo file, once, while it is alive.
ToolWritesLog ==
    /\ UNCHANGED <<stackVars, tableVars>>
    /\ process.state \in {"running", "terminating"}
    /\ logShape = None
    /\ \E shape \in LogShapes :
          /\ logShape' = Some(shape)
          /\ tempFile' = Some(LogText(shape, cmdsWithSemiColons, outputHeader, outputFooter))
    /\ UNCHANGED <<pc, params, cmdsWithSemiColons, outputHeader, outputFooter, now,
                   deathTime, process, returncode, fullOutput, raised, returned, events>>

CallNext ==
    \/ CallWinDbg
    \/ Poll
    \/ While
    \/ Sleep
    \/ Else
    \/ ReadOutput
    \/ Finally
    \/ Return
    \/ ProcessExits
    \/ ProcessDies
    \/ ToolWritesLog


\* ------------------------------------------------------------------ transcript parsers
MAX_STACK_DEPTH == 100

NOTICE == <<"Stack", SP, "unwind", SP, "information", SP, "not", SP, "available">>

\* Lines 164-175: the lines the loop passes over without looking at the index.
IsNoticeLine(line) == Strip(line) # <<>> /\ Contains(line, NOTICE)

\* Lines 164-177: the line is numbered index.
IsLineOf(index, line) ==
    /\ Strip(line) # <<>>
    /\ ~Contains(line, NOTICE)
    /\ IntParses(SplitWS(line)[1])
    /\ IntOf(SplitWS(line)[1]) = index

\* The first of the lines that is numbered index, stripped, with whether a
\* notice line came before it; None when there is none.
FirstLineOf(index, lines) ==
    LET hits == {i \in 1..Len(lines) : IsLineOf(index, lines[i])}
    IN  IF hits = {} THEN None
        ELSE LET i == CHOOSE x \in hits : \A y \in hits : x <= y
             IN  Some([line |-> Strip(lines[i]),
                       warning |-> \E j \in 1..(i - 1) : IsNoticeLine(lines[j])])

\* The lookup that forgets the comparison with index: the line numbered 0 is
\* taken for every index.
GetLineAndWarningForStackTrace_AnyIndex(index, trace) ==
    Local(SplitLines(trace), LAMBDA lines : FirstLineOf(0, lines))

\* _getLineAndWarningForStackTrace, lines 161-178; None is the implicit return
\* when the loop runs out.
GetLineAndWarningForStackTrace(index, trace) ==
    Local(SplitLines(trace), LAMBDA lines : FirstLineOf(index, lines))

\* re.findall(REGEX_FILE_AND_LINE_FROM_FRAME, line), its first match or None:
\* r'\[(.*)@\s*(\d+)' takes the leftmost '[' that can match, the last '@' after it
\* that is followed by optional whitespace and a digit, and the run of digits.
FileAndLineFromFrame(line) ==
    LET n == Len(line)
        DigitAfter(j) ==
            \E k \in (j + 1)..n :
                line[k] \in Digits /\ \A w \in (j + 1)..(k - 1) : line[w] \in Whitespace
        MatchAt(i, j) ==
            /\ line[i] = "[" /\ j > i /\ line[j] = "@"
            /\ \A w \in (i + 1)..(j - 1) : line[w] # NL
            /\ DigitAfter(j)
        starts == {i \in 1..n : \E j \in (i + 1)..n : MatchAt(i, j)}
    IN  IF starts = {} THEN None
        ELSE LET i == CHOOSE x \in starts : \A y \in starts : x <= y
                 ats == {j \in (i + 1)..n : MatchAt(i, j)}
                 j == CHOOSE x \in ats : \A y \in ats : x >= y
                 k == CHOOSE x \in (j + 1)..n :
                        line[x] \in Digits /\ \A w \in (j + 1)..(x - 1) : line[w] \in Whitespace
                 e == CHOOSE x \in k..n :
                        /\ \A w \in k..x : line[w] \in Digits
                        /\ (x = n \/ line[x + 1] \notin Digits)
             IN  Some([sourceFile |-> SubSeq(line, i + 1, j - 1),
                       line |-> SubSeq(line, k, e)])

\* The value types.  Their classes are not part of the sources at hand: records
\* that keep what the constructor is given.
Variable(typ, name, value) == [type |-> typ, name |-> name, value |-> value]

Frame(module, index, function, sourceFile, line, variables, warningAboutCorrectness) ==
    [module |-> module, index |-> index, function |-> function,
     sourceFile |-> sourceFile, line |-> line, variables |-> variables,
     warningAboutCorrectness |-> warningAboutCorrectness]

Stack(frameList, threadId) == [frames |-> frameList, threadId |-> threadId]

EQUALS == <<SP, "=", SP>>
MARKER_0N == <<"0n">>

\* Lines 209-213: the value of a variable; error is the exception of int().
ValueOf(right) ==
    IF StartsWith(right, MARKER_0N)
    THEN LET rest == RemoveAll(right, MARKER_0N)
         IN  IF IntParses(rest) THEN [error |-> "", value |-> PyInt(IntOf(rest))]
             ELSE [error |-> "ValueError", value |-> PyStr(<<>>)]
    ELSE [error |-> "", value |-> PyStr(right)]

\* Lines 199-218, from line i on.
RECURSIVE VariablesFrom(_, _, _)
VariablesFrom(lines, i, variables) ==
    IF i > Len(lines) THEN [error |-> "", variables |-> variables]
    ELSE LET line == lines[i]
         IN  IF ~Contains(line, EQUALS) THEN VariablesFrom(lines, i + 1, variables)
             ELSE LET leftAndRight == Split1(line, EQUALS)
                      leftSplit == SplitWS(leftAndRight[1])
                      value == ValueOf(leftAndRight[2])
                  IN  IF Len(leftSplit) = 0
                      THEN [error |-> "IndexError", variables |-> variables]
                      ELSE IF value.error # ""
                      THEN [error |-> value.error, variables |-> variables]
                      ELSE VariablesFrom(lines, i + 1,
                              Append(variables,
                                     Variable(Join(SubSeq(leftSplit, 1, Len(leftSplit) - 1),
                                                   <<SP>>),
                                              leftSplit[Len(leftSplit)],
                                              value.value)))

\* The parsing half of _getVariablesForFrame.
VariablesOf(rawOutput) == VariablesFrom(SplitLines(rawOutput), 1, <<>>)

\* Lines 232-234: the parsing half of _getThreadId.
RECURSIVE ThreadIdFrom(_, _)
ThreadIdFrom(lines, i) ==
    IF i > Len(lines) THEN [error |-> "", threadId |-> None]
    ELSE IF ~Contains(lines[i], <<"Id">>) THEN ThreadIdFrom(lines, i + 1)
    ELSE LET afterId == Split1(lines[i], <<"Id">>)[2]
             afterDot == Split1(afterId, <<".">>)
         IN  IF Len(afterDot) < 2 THEN [error |-> "IndexError", threadId |-> None]
             ELSE LET tokens == SplitWS(afterDot[2])
                  IN  IF Len(tokens) = 0 THEN [error |-> "IndexError", threadId |-> None]
                      ELSE IF ~HexParses(tokens[1])
                      THEN [error |-> "ValueError", threadId |-> None]
                      ELSE [error |-> "", threadId |-> Some(HexValue(tokens[1]))]

ThreadIdOf(rawOutput) == ThreadIdFrom(SplitLines(rawOutput), 1)

\* Lines 243-262: what one turn of the loop makes of the two traces, before the
\* variables are fetched.  found = FALSE is the break; error names an exception.
NoFrame == [found |-> FALSE, error |-> "", module |-> <<>>, function |-> None,
            sourceFile |-> None, line |-> None, warning |-> FALSE]

FrameFieldsOf(x, y) ==
    IF x = None THEN NoFrame
    ELSE LET tokens == SplitWS(x[1].line)
         IN  IF Len(tokens) < 2 THEN [NoFrame EXCEPT !.found = TRUE, !.error = "IndexError"]
             ELSE IF Contains(tokens[2], <<"!">>) /\ Len(SplitAll(tokens[2], <<"!">>)) # 2
             THEN [NoFrame EXCEPT !.found = TRUE, !.error = "ValueError"]
             ELSE IF y = None
             THEN [NoFrame EXCEPT !.found = TRUE, !.error = "TypeError"]
             ELSE LET parts == SplitAll(tokens[2], <<"!">>)
                      match == FileAndLineFromFrame(y[1].line)
                  IN  [found |-> TRUE, error |-> "",
                       module |-> parts[1],
                       function |-> IF Len(parts) = 2 THEN Some(parts[2]) ELSE None,
                       sourceFile |-> IF match # None THEN Some(match[1].sourceFile)
                                      ELSE None,
                       line |-> IF match # None THEN Some(PyStr(match[1].line))
                                ELSE None,
                       warning |-> y[1].warning]

FrameFields(index, clean, extended) ==
    Local(GetLineAndWarningForStackTrace(index, clean), LAMBDA x :
        Local(GetLineAndWarningForStackTrace(index, extended), LAMBDA y :
            FrameFieldsOf(x, y)))

\* ------------------------------------------------------------------ the tool's output for a dump
MaxDepth == 3

LongDepth == MAX_STACK_DEPTH + 1

\* The frame number the tool prints, two digits wide, in the decimal notation
\* the parser reads.
IndexToken(n) == IF n < 10 THEN <<"0">> \o DecimalText(n) ELSE DecimalText(n)

Descriptor(n) ==
    IF n = 0 THEN <<"TheCrasher", "!", "main+0x1b">>
    ELSE <<"TheCrasher", "!", "invoke_main+0x">> \o DecimalText(n)

SourceSuffix(n) ==
    IF n = 0
    THEN <<SP, "[", "c:\\users\\...\\source.cpp", SP, "@", SP, "4", "3", "]">>
    ELSE <<SP, "[", "f:\\dd\\vctools\\crt", SP, "src\\exe_common.inl", SP, "@", SP>>
            \o DecimalText(n) \o <<"]">>

CompactLine(n) == IndexToken(n) \o <<SP>> \o Descriptor(n)

ExtendedLine(n) ==
    IndexToken(n) \o <<SP, "010ffc14", SP, "00889ad9", SP>> \o Descriptor(n)
        \o SourceSuffix(n)

NoticeLine ==
    <<"WARNING:", SP>> \o NOTICE \o <<".", SP, "Following", SP, "frames", SP, "may",
                                     SP, "be", SP, "wrong.">>

ColumnHeads == <<SP, "#", SP>>

Text(lines) == <<NL>> \o Join(lines, <<NL>>) \o <<NL>>

CompactKinds ==
    [k : {"plain"}, n : 0..MaxDepth]
        \cup [k : {"gap", "nofunction", "notice", "literal", "bare", "operator"},
              n : {MaxDepth}]
        \cup [k : {"long"}, n : {LongDepth}]

\* What kcn prints.
KcnOutput(c) ==
    LET numbered == [i \in 1..c.n |-> CompactLine(i - 1)]
    IN  CASE c.k \in {"plain", "long"} -> Text(<<ColumnHeads>> \o numbered)
          [] c.k = "gap" ->
                Text(<<ColumnHeads>> \o SelectSeq(numbered, LAMBDA l : l # CompactLine(1)))
          [] c.k = "nofunction" ->
                Text(<<ColumnHeads, <<"0", "0", SP, "0x7ff6">> >> \o Tail(numbered))
          [] c.k = "notice" ->
                Text(<<ColumnHeads, numbered[1], NoticeLine>> \o Tail(numbered))
          [] c.k = "literal" ->
                Text(<<ColumnHeads,
                       <<"0", "0", SP, "010ffc14", SP, "00889ad9", SP>> \o Descriptor(0)>>)
          [] c.k = "bare" -> Text(<<ColumnHeads, <<"0", "0">> >>)
          [] c.k = "operator" ->
                Text(<<ColumnHeads,
                       <<"0", "0", SP, "TheCrasher", "!", "Foo::operator", "!", "=">> >>)

ExtendedKinds ==
    [k : {"plain", "nosource", "first", "notice"}, n : {MaxDepth}]
        \cup [k : {"long"}, n : {LongDepth}]

\* What kpn prints.
KpnOutput(e) ==
    LET numbered == [i \in 1..e.n |-> ExtendedLine(i - 1)]
    IN  CASE e.k \in {"plain", "long"} -> Text(<<ColumnHeads>> \o numbered)
          [] e.k = "nosource" ->
                Text(<<ColumnHeads>>
                        \o [i \in 1..e.n |-> IndexToken(i - 1) \o <<SP, "010ffc14", SP,
                                                "00889ad9", SP>> \o Descriptor(i - 1)])
          [] e.k = "first" -> Text(<<ColumnHeads, numbered[1]>>)
          [] e.k = "notice" ->
                Text(<<ColumnHeads, numbered[1], NoticeLine>> \o Tail(numbered))

VariableKinds == {"sample", "none", "mixed", "char", "noname"}

\* What dv /t * prints.
DvOutput(v) ==
    CASE v = "sample" ->
            <<"int", SP, "argc", SP, "=", SP, "0n", "1", NL,
              "char", SP, "**", SP, "argv", SP, "=", SP, "0x032053f0", NL,
              "char", SP, "*", SP, "p", SP, "=", SP, "0x00000000", SP, "\"\"", NL, NL>>
      [] v = "none" -> <<NL>>
      [] v = "mixed" ->
            <<"int", SP, "n", SP, "=", SP, "0n", "-", "5", NL,
              "struct", SP, "Foo", SP, "f", SP, "=", SP, "struct", SP, "Foo", NL,
              "char", SP, "*", SP, "s", SP, "=", SP, "0x00d0", SP, "\"a", SP, "=", SP,
              "0n", "1", "\"", NL, NL>>
      [] v = "char" ->
            <<"char", SP, "c", SP, "=", SP, "0n", "9", "7", SP, "'a'", NL, NL>>
      [] v = "noname" ->
            <<SP, "=", SP, "0n", "1", NL, NL>>

ThreadKinds == {"sample", "none", "nodot", "nothex"}

\* What ~. prints.
ThreadOutput(t) ==
    CASE t = "sample" ->
            <<NL, ".", SP, SP, "0", SP, SP, "Id", ":", SP, "9", "7", "c", "c", ".",
              "e", "0", "0", SP, "Suspend:", SP, "0", SP, "Teb:", SP, "00f81000", SP,
              "Unfrozen", NL, SP, SP, "Priority:", SP, "0", NL, NL>>
      [] t = "none" -> <<NL, "No", SP, "current", SP, "thread", NL>>
      [] t = "nodot" -> <<NL, ".", SP, SP, "0", SP, SP, "Id", ":", SP, "9", "7", "c", "c", NL>>
      [] t = "nothex" ->
            <<NL, ".", SP, SP, "0", SP, SP, "Id", ":", SP, "9", "7", "c", "c", ".",
              "<unknown>", SP, "Suspend:", SP, "0", NL>>

\* The dumps: what the tool prints for each command.  The deep trace comes with
\* the deep extended trace only.
Dumps ==
    {d \in [compact : CompactKinds, extended : ExtendedKinds, variables : VariableKinds,
            thread : ThreadKinds] :
        /\ (d.compact.k = "long") = (d.extended.k = "long")
        /\ d.compact.k = "long" => (d.variables = "none" /\ d.thread = "sample")}

\* ------------------------------------------------------------------ getStackTrace
StrArg(c) == [kind |-> "str", str |-> c, list |-> <<>>]
ListArg(l) == [kind |-> "list", str |-> <<>>, list |-> l]

FullShape == [surround |-> TRUE, echo |-> TRUE, header |-> TRUE, footer |-> TRUE]

\* What _callWinDbg(arg) returns when the tool exits with 0 in time, having
\* logged body as the output of the caller's commands.
CallWinDbgReturns(arg, body) ==
    LET list == DebugCommandsList(arg, TRUE, TRUE)
        cmds == CmdsWithSemiColons(arg, TRUE, TRUE, TRUE)
        header == OutputHeader(list, TRUE)
        footer == OutputFooter(list)
    IN  JustCommandOutput(LogTextOf(FullShape, cmds, header, footer, body), cmds,
                          header[1], footer[1]).text

\* The ways a call of _callWinDbg ends: with its text, or with one of its errors.
CallOutcomes == {"", "RuntimeError", "CalledProcessError"}

\* The commands of _getVariablesForFrame, lines 181-184, and the tool's output.
FrameCommands(index) == <<<<".frame", SP>> \o DecimalText(index), <<"dv", SP, "/t", SP, "*">> >>

FrameAndDvOutput(d, index) ==
    <<NL>> \o ExtendedLine(index) \o <<NL>>
        \o Split1(EndCalling(FrameCommands(index)[1]), ECHO)[2] \o <<NL>>
        \o Split1(StartCalling(FrameCommands(index)[2]), ECHO)[2] \o <<NL>>
        \o DvOutput(d.variables)

NoDump == [compact |-> [k |-> "plain", n |-> 0], extended |-> [k |-> "plain", n |-> MaxDepth],
           variables |-> "none", thread |-> "none"]

StackIdle ==
    /\ spc = "idle"
    /\ rawOutputClean = <<>>
    /\ rawOutputExtended = <<>>
    /\ idx = 0
    /\ frames = <<>>
    /\ stack = None
    /\ stackRaised = ""
    /\ launches = 0
    /\ rawAnalysis = None

\* Line 237: rawOutputClean = self._callWinDbg('kcn')
GetStackTrace ==
    /\ UNCHANGED <<callVars, tableVars>>
    /\ spc = "idle"
    /\ launches' = launches + 1
    /\ \E outcome \in CallOutcomes :
          IF outcome = ""
          THEN /\ rawOutputClean' = CallWinDbgReturns(StrArg(<<"kcn">>), KcnOutput(dump.compact))
               /\ spc' = "kpn"
               /\ UNCHANGED stackRaised
          ELSE /\ stackRaised' = outcome
               /\ spc' = "raised"
               /\ UNCHANGED rawOutputClean
    /\ UNCHANGED <<dump, rawOutputExtended, idx, frames, stack, rawAnalysis>>

\* Lines 238-240: rawOutputExtended = self._callWinDbg('kpn'); frames = []
CallKpn ==
    /\ UNCHANGED <<callVars, tableVars>>
    /\ spc = "kpn"
    /\ launches' = launches + 1
    /\ \E outcome \in CallOutcomes :
          IF outcome = ""
          THEN /\ rawOutputExtended' = CallWinDbgReturns(StrArg(<<"kpn">>),
                                                         KpnOutput(dump.extended))
               /\ spc' = "loop"
               /\ UNCHANGED stackRaised
          ELSE /\ stackRaised' = outcome
               /\ spc' = "raised"
               /\ UNCHANGED rawOutputExtended
    /\ UNCHANGED <<dump, rawOutputClean, idx, frames, stack, rawAnalysis>>

\* Lines 242-245: the range is used up, or no line has the index: leave the loop.
LoopEnds ==
    /\ UNCHANGED <<callVars, tableVars>>
    /\ spc = "loop"
    /\ \/ idx >= MAX_STACK_DEPTH
       \/ ~FrameFields(idx, rawOutputClean, rawOutputExtended).found
    /\ spc' = "threadId"
    /\ UNCHANGED <<dump, rawOutputClean, rawOutputExtended, idx, frames, stack,
                   stackRaised, launches, rawAnalysis>>

\* Lines 243-268: one turn of the loop.
LoopTurn ==
    /\ UNCHANGED <<callVars, tableVars>>
    /\ spc = "loop"
    /\ idx < MAX_STACK_DEPTH
    /\ \E f \in {FrameFields(idx, rawOutputClean, rawOutputExtended)} :
           /\ f.found
           /\ IF f.error # ""
              THEN /\ stackRaised' = f.error
                   /\ spc' = "raised"
                   /\ UNCHANGED <<idx, frames, launches>>
              ELSE /\ launches' = launches + 1
                   /\ \E outcome \in CallOutcomes :
                         LET rawOutput == CallWinDbgReturns(ListArg(FrameCommands(idx)),
                                                            FrameAndDvOutput(dump, idx))
                             v == VariablesOf(rawOutput)
                         IN  IF outcome # "" \/ v.error # ""
                             THEN /\ stackRaised' = IF outcome # "" THEN outcome ELSE v.error
                                  /\ spc' = "raised"
                                  /\ UNCHANGED <<idx, frames>>
                             ELSE /\ frames' = Append(frames,
                                        Frame(f.module, idx, f.function, f.sourceFile,
                                              f.line, v.variables, f.warning))
                                  /\ idx' = idx + 1
                                  /\ UNCHANGED <<spc, stackRaised>>
    /\ UNCHANGED <<dump, rawOutputClean, rawOutputExtended, stack, rawAnalysis>>

\* A return that reads the thread id without a process of its own.
ReturnStack_NoLaunch ==
    /\ UNCHANGED <<callVars, tableVars>>
    /\ spc = "threadId"
    /\ UNCHANGED launches
    /\ \E outcome \in CallOutcomes :
          LET rawOutput == CallWinDbgReturns(ListArg(<< <<"~.">> >>), ThreadOutput(dump.thread))
              t == ThreadIdOf(rawOutput)
          IN  IF outcome # "" \/ t.error # ""
              THEN /\ stackRaised' = IF outcome # "" THEN outcome ELSE t.error
                   /\ spc' = "raised"
                   /\ UNCHANGED stack
              ELSE /\ stack' = Some(Stack(frames, t.threadId))
                   /\ spc' = "returned"
                   /\ UNCHANGED stackRaised
    /\ UNCHANGED <<dump, rawOutputClean, rawOutputExtended, idx, frames, rawAnalysis>>

\* Lines 270-271: threadId = self._getThreadId(); return Stack(frames, threadId)
ReturnStack ==
    /\ UNCHANGED <<callVars, tableVars>>
    /\ spc = "threadId"
    /\ launches' = launches + 1
    /\ \E outcome \in CallOutcomes :
          LET rawOutput == CallWinDbgReturns(ListArg(<< <<"~.">> >>), ThreadOutput(dump.thread))
              t == ThreadIdOf(rawOutput)
          IN  IF outcome # "" \/ t.error # ""
              THEN /\ stackRaised' = IF outcome # "" THEN outcome ELSE t.error
                   /\ spc' = "raised"
                   /\ UNCHANGED stack
              ELSE /\ stack' = Some(Stack(frames, t.threadId))
                   /\ spc' = "returned"
                   /\ UNCHANGED stackRaised
    /\ UNCHANGED <<dump, rawOutputClean, rawOutputExtended, idx, frames, rawAnalysis>>

\* What !analyze -v and .lastevent print.
AnalysisCommands == << <<"!", "analyze", SP, "-v">>, <<".", "lastevent">> >>

AnalysisOutput ==
    <<NL, "FAULTING_IP:", SP, "TheCrasher", "!", "main+0x1b", NL>>
        \o Split1(EndCalling(AnalysisCommands[1]), ECHO)[2] \o <<NL>>
        \o Split1(StartCalling(AnalysisCommands[2]), ECHO)[2] \o <<NL>>
        \o <<"Last", SP, "event:", SP, "Access", SP, "violation", NL>>

\* getRawAnalysis, lines 273-277.
GetRawAnalysis ==
    /\ UNCHANGED <<callVars, tableVars>>
    /\ spc = "idle"
    /\ launches' = launches + 1
    /\ \E outcome \in CallOutcomes :
          IF outcome = ""
          THEN /\ rawAnalysis' = Some(CallWinDbgReturns(ListArg(AnalysisCommands),
                                                        AnalysisOutput))
               /\ spc' = "analysed"
               /\ UNCHANGED stackRaised
          ELSE /\ stackRaised' = outcome
               /\ spc' = "analysisRaised"
               /\ UNCHANGED rawAnalysis
    /\ UNCHANGED <<dump, rawOutputClean, rawOutputExtended, idx, frames, stack>>

\* ------------------------------------------------------------------ HtmlTable
MaxCalls == 3
MaxColumns == 3

HeaderNames == <<"A", "B", "C", "D">>
CellTexts == <<"0", "9999", "2", "4444", "5">>

\* The tableHeaders a table is constructed with.
InitialHeaders == {SubSeq(HeaderNames, 1, n) : n \in 0..MaxColumns}

\* The list literals a caller passes to addRow: of every length around the
\* number of headers.
FreshRows == {[i \in 1..n |-> Some(CellTexts[i])] : n \in 0..(MaxColumns + 1)}

\* The names a caller asks to remove: present ones and one no table has.
ColumnNames == {"A", "B", "Z"}

\* The columnNames argument of removeColumns: one name, or a list of names.
ColumnArgs ==
    [kind : {"str"}, names : {<<c>> : c \in ColumnNames}]
        \cup [kind : {"list"},
              names : {<<>>} \cup {<<c>> : c \in ColumnNames}
                        \cup {<<c, d>> : c \in ColumnNames, d \in ColumnNames}]

NoCall == [op |-> "", error |-> "", headers |-> <<>>, rows |-> <<>>, row |-> <<>>,
           names |-> <<>>]

TableIdle ==
    /\ tableHeaders = <<>>
    /\ rows = <<>>
    /\ lists = <<>>
    /\ lastCall = NoCall
    /\ history = <<>>

\* The rows as a caller reads them: the cells of each list of self.rows.
RowCells == [i \in 1..Len(rows) |-> lists[rows[i]]]

\* list.index: the first position of c, 0 for ValueError.
ListIndex(list, c) ==
    IF \E i \in 1..Len(list) : list[i] = c
    THEN CHOOSE i \in 1..Len(list) : list[i] = c /\ \A j \in 1..(i - 1) : list[j] # c
    ELSE 0

\* del row[idx], for the 1-based position at.
Del(row, at) == SubSeq(row, 1, at - 1) \o SubSeq(row, at + 1, Len(row))

\* sorted(..., reverse=True), line 109.
RECURSIVE SortedReverse(_)
SortedReverse(s) ==
    IF s = <<>> THEN <<>>
    ELSE LET m == CHOOSE i \in 1..Len(s) : \A j \in 1..Len(s) : s[i] >= s[j]
         IN  <<s[m]>> \o SortedReverse(Del(s, m))

\* deleter, lines 111-115: the deletions are made one after the other on the
\* same list; the first position that is out of range raises IndexError and the
\* list keeps the deletions made before it.
RECURSIVE Deleter(_, _)
Deleter(row, indexes) ==
    IF indexes = <<>> THEN [error |-> "", row |-> row]
    ELSE IF Head(indexes) > Len(row) THEN [error |-> "IndexError", row |-> row]
    ELSE Deleter(Del(row, Head(indexes)), Tail(indexes))

\* modifyAllRows(deleter), lines 101-102, from row i on: each list of self.rows
\* is changed in place, so a list that is in self.rows twice is changed twice.
RECURSIVE DeleteInRows(_, _, _)
DeleteInRows(heap, i, indexes) ==
    IF i > Len(rows) THEN [error |-> "", lists |-> heap]
    ELSE LET d == Deleter(heap[rows[i]], indexes)
             after == [heap EXCEPT ![rows[i]] = d.row]
         IN  IF d.error # "" THEN [error |-> d.error, lists |-> after]
             ELSE DeleteInRows(after, i + 1, indexes)

Called(op, error, row, names) ==
    /\ lastCall' = [op |-> op, error |-> error, headers |-> tableHeaders,
                    rows |-> RowCells, row |-> row, names |-> names]
    /\ history' = Append(history, [op |-> op, error |-> error])

\* An addRow that appends whatever it is given.
AddRowOf_NoLengthTest(id, heap) ==
    /\ Called("addRow", "", heap[id], <<>>)
    /\ lists' = heap
    /\ rows' = Append(rows, id)
    /\ UNCHANGED tableHeaders

\* addRow, lines 90-96, with the list object the caller passes.
AddRowOf(id, heap) ==
    IF Len(heap[id]) # Len(tableHeaders)
    THEN /\ Called("addRow", "ValueError", heap[id], <<>>)
         /\ lists' = heap
         /\ UNCHANGED <<tableHeaders, rows>>
    ELSE /\ Called("addRow", "", heap[id], <<>>)
         /\ lists' = heap
         /\ rows' = Append(rows, id)
         /\ UNCHANGED tableHeaders

\* addRow(row): row is a new list, or a list the caller already holds.
AddRow ==
    /\ Len(history) < MaxCalls
    /\ \/ \E row \in FreshRows : AddRowOf(Len(lists) + 1, Append(lists, row))
       \/ \E id \in 1..Len(lists) : AddRowOf(id, lists)
    /\ UNCHANGED <<callVars, stackVars>>

\* removeColumns, lines 104-118.
RemoveColumns ==
    /\ Len(history) < MaxCalls
    /\ \E arg \in ColumnArgs :
          LET columnNames == arg.names
              found == [i \in 1..Len(columnNames) |-> ListIndex(tableHeaders, columnNames[i])]
              indexes == SortedReverse(found)
              h == Deleter(tableHeaders, indexes)
              r == DeleteInRows(lists, 1, indexes)
          IN  IF \E i \in 1..Len(found) : found[i] = 0
              THEN /\ Called("removeColumns", "ValueError", <<>>, columnNames)
                   /\ UNCHANGED <<tableHeaders, rows, lists>>
              ELSE IF h.error # ""
              THEN /\ Called("removeColumns", h.error, <<>>, columnNames)
                   /\ tableHeaders' = h.row
                   /\ UNCHANGED <<rows, lists>>
              ELSE /\ Called("removeColumns", r.error, <<>>, columnNames)
                   /\ tableHeaders' = h.row
                   /\ lists' = r.lists
                   /\ UNCHANGED rows
    /\ UNCHANGED <<callVars, stackVars>>

\* addColumn, lines 125-128: row + [None] is a new list for every row.
AddColumn ==
    /\ Len(history) < MaxCalls
    /\ Len(tableHeaders) <= MaxColumns
    /\ \E headerName \in {"D"} :
          /\ Called("addColumn", "", <<>>, <<headerName>>)
          /\ tableHeaders' = Append(tableHeaders, headerName)
          /\ lists' = lists \o [i \in 1..Len(rows) |-> Append(lists[rows[i]], None)]
          /\ rows' = [i \in 1..Len(rows) |-> Len(lists) + i]
    /\ UNCHANGED <<callVars, stackVars>>

TableNext ==
    \/ AddRow
    \/ RemoveColumns
    \/ AddColumn

\* HtmlTable(tableHeaders), lines 63-70.
TableInit ==
    /\ CallInit /\ StackIdle /\ dump = NoDump
    /\ tableHeaders \in InitialHeaders
    /\ rows = <<>>
    /\ lists = <<>>
    /\ lastCall = NoCall
    /\ history = <<>>

TableSpec == TableInit /\ [][TableNext]_vars

StackNext ==
    \/ GetStackTrace
    \/ CallKpn
    \/ LoopEnds
    \/ LoopTurn
    \/ ReturnStack
    \/ GetRawAnalysis

StackInit == CallInit /\ StackIdle /\ TableIdle /\ dump \in Dumps

StackSpec == StackInit /\ [][StackNext]_vars

Init == CallInit /\ StackIdle /\ TableIdle /\ dump = NoDump

Spec == Init /\ [][CallNext]_vars

\* ================================================================== claims on _callWinDbg
Ended == pc \in {"returned", "raised"}

ExitedBeforeDeadline == process.state = "exited" /\ process.exitTime < deathTime

IndexOf(seq, e) == IF \E i \in 1..Len(seq) : seq[i] = e
                   THEN CHOOSE i \in 1..Len(seq) : seq[i] = e ELSE 0

Did(e) == IndexOf(events, e) # 0

DidBefore(a, b) == Did(a) /\ Did(b) /\ IndexOf(events, a) < IndexOf(events, b)

\* C1: when the tool has not exited before launch time + timeout, the call ends
\* with the timeout error, process.terminate() comes before the raise, and the log
\* is never read, sliced or returned.
C1_TimeoutTerminatesThenRaises ==
    (Ended /\ ~ExitedBeforeDeadline) =>
        /\ raised = "RuntimeError"
        /\ DidBefore("process.terminate", "raise RuntimeError")
        /\ ~Did("read") /\ ~Did("slice") /\ ~Did("return")
        /\ fullOutput = <<>>
        /\ returned = None

C1_Witness ==
    /\ pc = "raised"
    /\ raised = "RuntimeError"
    /\ process.state \in {"terminating", "dead"}
    /\ tempFile # None

\* The command list the claim of C3 describes.
ExpectedCommands ==
    <<SYMOPT>>
        \o (IF params.gotoExceptionContext THEN <<ECXR>> ELSE <<>>)
        \o (IF params.debugCommandsList.kind = "str"
            THEN <<params.debugCommandsList.str>> ELSE params.debugCommandsList.list)
        \o (IF params.exitAfterCommands THEN <<QUIT>> ELSE <<>>)

IsAnnouncement(part) == StartsWith(part, ECHO)

\* The state right after the launch.
JustLaunched == pc = "poll" /\ events = <<"Popen">> /\ logShape = None
                    /\ process.state = "running"

\* C3 as stated: the string after -c is the commands joined with ';', the
\* line-number command first and the exception-context command second.
C3_JoinedIsTheCommands ==
    JustLaunched => cmdsWithSemiColons = Join(ExpectedCommands, SEMICOLON)

\* C3, amended: that holds when printHeaderFooter is False; when it is True the
\* ';'-separated parts are the same commands in the same order, each preceded by
\* its '.echo == Start Calling c ==' announcement and, unless it is 'q', followed
\* by its '.echo == End Calling c ==' announcement, so the string begins with the
\* Start announcement of '.symopt+0x10'.
C3_JoinedInvocation ==
    JustLaunched =>
        LET parts == SplitAll(cmdsWithSemiColons, SEMICOLON)
            cmdAt == {i \in 1..Len(parts) : ~IsAnnouncement(parts[i])}
        IN  IF ~params.printHeaderFooter
            THEN cmdsWithSemiColons = Join(ExpectedCommands, SEMICOLON)
            ELSE /\ SelectSeq(parts, LAMBDA x : ~IsAnnouncement(x)) = ExpectedCommands
                 /\ parts[1] = StartCalling(SYMOPT)
                 /\ \A i \in cmdAt :
                       /\ i > 1 /\ parts[i - 1] = StartCalling(parts[i])
                       /\ IF parts[i] = QUIT
                          THEN i = Len(parts) \/ parts[i + 1] # EndCalling(parts[i])
                          ELSE i < Len(parts) /\ parts[i + 1] = EndCalling(parts[i])
                 /\ Len(parts) = 3 * Len(ExpectedCommands)
                                   - Cardinality({i \in cmdAt : parts[i] = QUIT})

C3_Witness ==
    /\ JustLaunched
    /\ params.printHeaderFooter
    /\ params.gotoExceptionContext
    /\ params.exitAfterCommands
    /\ params.debugCommandsList.kind = "list"
    /\ Len(params.debugCommandsList.list) = 2

\* C7: the tool completed before the deadline with a non-zero exit code: the call
\* ends with the process-execution error, the output was logged before the raise,
\* and nothing is returned.
C7_NonZeroExitRaises ==
    (Ended /\ ExitedBeforeDeadline /\ process.exitCode # 0) =>
        /\ raised = "CalledProcessError"
        /\ DidBefore("logger.error", "raise CalledProcessError")
        /\ returned = None

\* C8: once the call has ended, on any path, the log file no longer exists.
C8_SinkGoneAfterCall == Ended => tempFile = None

\* The slicing step applies (line 146) and ran on the text that was read.
SlicingApplies ==
    /\ params.getJustCommandOutput
    /\ Truthy(outputHeader)
    /\ Truthy(outputFooter)
    /\ Did("read") /\ raised # "CalledProcessError"

\* Where the slicing step looks for each marker: the echo in the text read, the
\* header after the echo, the footer after the header.
EchoLocated == Contains(fullOutput, cmdsWithSemiColons)
HeaderLocated ==
    /\ EchoLocated
    /\ Contains(Split1(fullOutput, cmdsWithSemiColons)[2], outputHeader[1])
FooterLocated ==
    /\ HeaderLocated
    /\ Contains(Split1(Split1(fullOutput, cmdsWithSemiColons)[2], outputHeader[1])[2],
                outputFooter[1])

\* C9: when the echo, the header or the footer cannot be located, the call
\* returns the text it read, unsliced, and raises nothing.
C9_MissingMarkerReturnsUnsliced ==
    (Ended /\ SlicingApplies /\ ~FooterLocated) =>
        /\ pc = "returned"
        /\ raised = ""
        /\ returned = Some(fullOutput)

\* The log held the header, the command output and the footer, and was read.
LogHadMarkers ==
    /\ SlicingApplies
    /\ logShape # None
    /\ logShape[1].header /\ logShape[1].footer
    /\ fullOutput = LogText(logShape[1], cmdsWithSemiColons, outputHeader, outputFooter)

\* C2 as stated: from a log that holds the echo of the invocation and then the
\* header, the command output and the footer, the call returns exactly the text of
\* the log from the header marker to the footer marker, both included.
C2_ReturnsExactSlice ==
    (Ended /\ LogHadMarkers /\ logShape[1].echo) =>
        returned = Some(outputHeader[1] \o CommandOutput \o outputFooter[1])

\* C2, amended: when the log holds the echo of the joined invocation and, after
\* it, the header, the command output and the footer, the call returns the header,
\* a line break, the text strictly between the two markers, a line break and the
\* footer, whatever text surrounds the echo and the footer.
C2_ReturnsRewrappedSlice ==
    (Ended /\ LogHadMarkers /\ logShape[1].echo) =>
        /\ pc = "returned"
        /\ returned = Some(outputHeader[1] \o <<NL>> \o CommandOutput \o <<NL>>
                             \o outputFooter[1])

C2_Witness ==
    /\ pc = "returned"
    /\ LogHadMarkers
    /\ logShape[1].echo
    /\ logShape[1].surround
    /\ Len(AsList(params.debugCommandsList)) = 2

\* C15 as stated: the timeout error is raised, and the process terminated,
\* only when no poll has seen the process's exit: once returncode is set (here:
\* for a process that exited before the deadline) the call raises no timeout
\* error and goes on to read the output.
C15_NoTimeoutAfterExitSeen ==
    ExitedBeforeDeadline =>
        /\ raised = "RuntimeError" => returncode = None
        /\ (Ended /\ returncode # None) => Did("read")

\* ================================================================== claims on getStackTrace
\* The compact trace has a line numbered k.
NumberedLine(k, lines) == \E i \in 1..Len(lines) : IsLineOf(k, lines[i])

\* C4: the frames assembled, and the Stack returned, never number more than
\* MAX_STACK_DEPTH; the frame at position k (from 0) has index k; a frame exists
\* only for an index that has a line in the compact trace; and a returned Stack
\* short of the cap ends at the first index that has no line in the compact
\* trace, whatever lines follow.
C4_FramesContiguousAndCapped ==
    /\ Len(frames) <= MAX_STACK_DEPTH
    /\ \A k \in 1..Len(frames) : frames[k].index = k - 1
    /\ frames # <<>> =>
          Local(SplitLines(rawOutputClean), LAMBDA lines :
              NumberedLine(Len(frames) - 1, lines))
    /\ spc = "returned" =>
          /\ stack # None
          /\ stack[1].frames = frames
          /\ Local(SplitLines(rawOutputClean), LAMBDA lines :
                /\ \A k \in 1..Len(frames) : NumberedLine(k - 1, lines)
                /\ Len(frames) < MAX_STACK_DEPTH => ~NumberedLine(Len(frames), lines))

\* A Stack returned from a compact trace that has lines 0 and 2 and no line 1:
\* one frame, although a line of a higher index exists.
C4_Witness ==
    /\ spc = "returned"
    /\ dump.compact.k = "gap"
    /\ Len(stack[1].frames) = 1
    /\ NumberedLine(0, SplitLines(rawOutputClean))
    /\ ~NumberedLine(1, SplitLines(rawOutputClean))
    /\ NumberedLine(2, SplitLines(rawOutputClean))

\* The sample transcript: one compact line for frame 0 (with the two address
\* columns, as the claim writes it, or as kcn prints it), the extended trace
\* with the source suffix, the three variable lines.
IsSampleDump ==
    /\ \/ dump.compact.k = "literal"
       \/ dump.compact = [k |-> "plain", n |-> 1]
    /\ dump.extended.k = "plain"
    /\ dump.variables = "sample"

SampleFrame ==
    Frame(<<"TheCrasher">>, 0, Some(<<"main+0x1b">>),
          Some(<<"c:\\users\\...\\source.cpp">>), Some(PyInt(43)),
          << Variable(<<"int">>, <<"argc">>, PyInt(1)),
             Variable(<<"char", SP, "**">>, <<"argv">>, PyStr(<<"0x032053f0">>)),
             Variable(<<"char", SP, "*">>, <<"p">>, PyStr(<<"0x00000000", SP, "\"\"">>)) >>,
          FALSE)

\* C5 as stated: for the sample transcript getStackTrace returns a Stack of
\* exactly one Frame: module TheCrasher, function main+0x1b, the source file
\* without surrounding whitespace, line the integer 43, no warning, and the
\* three Variables (int, argc, 1), (char **, argv, 0x032053f0),
\* (char *, p, 0x00000000 "").
C5_SampleStack ==
    (spc = "returned" /\ IsSampleDump) => stack[1].frames = <<SampleFrame>>

\* What the variable dump of frame 0 comes back as from _callWinDbg.
DvTranscript ==
    CallWinDbgReturns(ListArg(FrameCommands(0)), FrameAndDvOutput(dump, 0))

\* The lines of the dump that hold ' = '.
AssignmentLines(text) == SelectSeq(SplitLines(text), LAMBDA l : Contains(l, EQUALS))

\* The Variable of one assignment line, as C6 describes it.
ClaimedVariable(v, line) ==
    LET left == SplitWS(Split1(line, EQUALS)[1])
        right == Split1(line, EQUALS)[2]
    IN  /\ left # <<>>
        /\ v.name = left[Len(left)]
        /\ v.type = Join(SubSeq(left, 1, Len(left) - 1), <<SP>>)
        /\ IF StartsWith(right, MARKER_0N)
           THEN v.value.kind = "int"
           ELSE v.value = PyStr(right)

\* The variables of frame 0 have been asked for and parsed: the frame exists,
\* or the parser of the variables raised.
VariablesParsed ==
    \/ frames # <<>>
    \/ /\ spc = "raised"
       /\ idx = 0
       /\ stackRaised \notin CallOutcomes
       /\ FrameFields(0, rawOutputClean, rawOutputExtended).error = ""

\* C6 as stated: every line of the variable dump that holds ' = ' yields exactly
\* one Variable, in line order, the other lines none; name is the last token of
\* the left side, type the tokens before it joined by one space, value the
\* right side unchanged unless it begins with 0n, and then an integer.
C6_EveryAssignmentLineYieldsVariable ==
    VariablesParsed =>
        /\ frames # <<>>
        /\ Local(AssignmentLines(DvTranscript), LAMBDA ls :
              /\ Len(frames[1].variables) = Len(ls)
              /\ \A i \in 1..Len(ls) : ClaimedVariable(frames[1].variables[i], ls[i]))

\* The transcripts with parsing gaps only: every compact line has its two
\* tokens and at most one '!', and each variable line parses.
IsGapDump ==
    /\ dump.compact.k \in {"plain", "gap", "nofunction", "notice"}
    /\ dump.extended.k \in {"plain", "nosource", "first", "notice"}
    /\ dump.variables \in {"sample", "none", "mixed"}

\* C10 as stated: a descriptor without '!', an extended trace without the
\* source suffix or without a line for the index, a variable dump without
\* ' = ' lines, a thread status without a parsable Id: none of them makes
\* getStackTrace raise; the Stack is returned with the fields absent or empty.
C10_ParsingGapsNeverAbort ==
    IsGapDump =>
        /\ spc = "raised" => stackRaised \in {"RuntimeError", "CalledProcessError"}
        /\ spc = "returned" =>
              /\ dump.compact.k = "nofunction" => stack[1].frames[1].function = None
              /\ dump.extended.k = "nosource" =>
                    \A k \in 1..Len(stack[1].frames) :
                        /\ stack[1].frames[k].sourceFile = None
                        /\ stack[1].frames[k].line = None
              /\ dump.variables = "none" =>
                    \A k \in 1..Len(stack[1].frames) : stack[1].frames[k].variables = <<>>
              /\ dump.thread # "sample" => stack[1].threadId = None

\* The compact trace carries the notice for index k: the notice line stands
\* directly in front of the line numbered k.
NoticeFor(k, lines) ==
    \E i \in 2..Len(lines) : IsLineOf(k, lines[i]) /\ IsNoticeLine(lines[i - 1])

\* C13 as stated: in the Stack returned, warningAboutCorrectness of a frame is
\* true exactly when the compact trace carries the notice for the index of the
\* frame; a notice for another index, or one in the extended trace only, does
\* not set it.
C13_WarningFromCompactNotice ==
    spc = "returned" =>
        Local(SplitLines(rawOutputClean), LAMBDA lines :
            \A k \in 1..Len(stack[1].frames) :
                stack[1].frames[k].warningAboutCorrectness = NoticeFor(k - 1, lines))

\* C14 as stated: a call of getStackTrace or of getRawAnalysis launches one
\* external process and no further one.
C14_OneInvocationPerCall == launches <= 1

\* C14, amended: getRawAnalysis launches exactly one external process;
\* getStackTrace launches one for the compact trace, one for the extended
\* trace, one for the variables of every frame and one for the thread id, each
\* after the one before has ended: 3 + the number of frames when it returns,
\* and no more than that when one of them raises.
C14_InvocationsPerCall ==
    /\ spc \in {"analysed", "analysisRaised"} => launches = 1
    /\ spc = "kpn" => launches = 1
    /\ spc \in {"loop", "threadId"} => launches = 2 + Len(frames)
    /\ spc = "returned" => launches = 3 + Len(stack[1].frames)
    /\ spc = "raised" => launches \in 1..(3 + Len(frames))
    /\ launches <= 3 + MAX_STACK_DEPTH

\* A Stack of three frames returned: six processes were launched.
C14_Witness ==
    /\ spc = "returned"
    /\ Len(stack[1].frames) = 3
    /\ launches = 6

\* ================================================================== claims on HtmlTable
\* seq without the elements at the positions of P.
Without(seq, P) ==
    LET kept == {i \in 1..Len(seq) : i \notin P}
    IN  [k \in 1..Cardinality(kept) |->
            seq[CHOOSE i \in kept : Cardinality({j \in kept : j < i}) = k - 1]]

\* The positions of the headers named in the last call, in the table before it.
NamedPositions == {ListIndex(lastCall.headers, lastCall.names[i]) : i \in 1..Len(lastCall.names)}

\* C11 as stated: after any calls of addRow, addColumn and removeColumns, the
\* raising ones too, every row has as many cells as there are headers; addColumn
\* appends the header and a None cell to every row; removeColumns removes the
\* named headers (each named once) and the cells at their positions from every
\* row.
C11_RowsMatchHeaders ==
    /\ \A i \in 1..Len(rows) : Len(RowCells[i]) = Len(tableHeaders)
    /\ lastCall.op = "addColumn" =>
          /\ tableHeaders = Append(lastCall.headers, lastCall.names[1])
          /\ RowCells = [i \in 1..Len(lastCall.rows) |-> Append(lastCall.rows[i], None)]
    /\ (/\ lastCall.op = "removeColumns" /\ lastCall.error = ""
        /\ \A i, j \in 1..Len(lastCall.names) :
              lastCall.names[i] = lastCall.names[j] => i = j) =>
          /\ tableHeaders = Without(lastCall.headers, NamedPositions)
          /\ RowCells = [i \in 1..Len(lastCall.rows) |->
                            Without(lastCall.rows[i], NamedPositions)]

====
